---- MODULE Spec2Model ----
(***************************************************************************)
(* Model of tweet_bot.py: composition of a five-segment thread from a      *)
(* generated text, selection of a fallback thread that avoids repeats,     *)
(* posting of the thread as a reply chain with bounded retry, and the      *)
(* JSON-file-backed posting history.                                       *)
(*                                                                         *)
(* A text (Python str) is a sequence of characters, each character a       *)
(* one-element TLA+ string; the ellipsis character U+2026 is the atom      *)
(* "...", a single character of the text.                                  *)
(***************************************************************************)
EXTENDS Integers, Sequences, FiniteSets, TLC

VARIABLES
  fallbackFile,     \* fallback.json: [exists, text], text a sequence of JSON tokens
  logFile,          \* posted_log.json: [exists, text]
  run,              \* number of executions of main started so far
  pc,               \* position of the current execution of main
  run_mode,         \* main: RUN_MODE after strip()
  fallback_threads, \* main: result of load_fallback_threads()
  tweets,           \* main: the thread to post (Python value)
  source,           \* main: "", "ai" or "fallback"
  first_id,         \* post_thread: first_id
  parent_id,        \* post_thread: parent_id
  idx,              \* post_thread: position of `text` in tweets (outer loop)
  attempt,          \* post_thread: inner loop variable
  lastSleep,        \* post_thread: the argument of the last time.sleep call
  err,              \* the exception that ended the current execution, or "none"
  hfCalls,          \* calls of call_hf_inference made by the current execution
  hfOutcome,        \* "none", "ok" (call and parse returned) or "fail" (raised)
  created,          \* posts created on the posting backend by the current execution
  lastCall,         \* the last create_tweet call: [seg, n, ok], the n-th call for segment seg
  picked,           \* the threads returned by pick_fallback, over all executions
  logAtStart,       \* logFile when the current execution started
  saved,            \* entries passed to save_log calls that returned, in order
  logInit,          \* logFile before the first execution
  raw,              \* parse_thread_list: its argument
  ht,               \* parse_thread_list: value returned by pick_hashtags()
  out,              \* parse_thread_list: its local `tweets`, the list returned
  cpc               \* parse_thread_list: "off", "input", "lines" or "parsed"

mainVars == <<run, pc, run_mode, fallback_threads, tweets, source, first_id, parent_id,
              idx, attempt, lastSleep, err, hfCalls, hfOutcome, created, lastCall>>
storeVars == <<fallbackFile, logFile, picked, logAtStart, saved, logInit>>
composeVars == <<raw, ht, out, cpc>>
vars == <<mainVars, storeVars, composeVars>>

\* Bounds of the model.
MaxRuns == 2
MaxLines == 6
MaxBuckets == 1

(***************************************************************************)
(* Configuration (tweet_bot.py lines 35-57).                               *)
(***************************************************************************)
MAX_TWEET_LEN == 280

ELLIPSIS == "..."

CTA ==
  <<"W","a","s"," ","t","h","i","s"," ","u","s","e","f","u","l","?"," ","L","i","k",
    "e",","," ","S","h","a","r","e"," ","&"," ","C","o","m","m","e","n","t"," ","t",
    "o"," ","h","e","l","p"," ","o","t","h","e","r","s"," ","s","t","a","y"," ","s",
    "a","f","e",".">>

FILLER ==
  <<"C","y","b","e","r","s","e","c","u","r","i","t","y"," ","a","w","a","r","e","n",
    "e","s","s"," ","m","a","t","t","e","r","s","."," ","S","t","a","y"," ","s","a",
    "f","e"," ","o","n","l","i","n","e",".">>

HASHTAG_BUCKETS ==
  << << <<"#","C","y","b","e","r","S","e","c","u","r","i","t","y">>,
        <<"#","I","n","f","o","S","e","c">>,
        <<"#","D","a","t","a","P","r","i","v","a","c","y">> >>,
     << <<"#","C","y","b","e","r","A","w","a","r","e","n","e","s","s">>,
        <<"#","S","e","c","u","r","i","t","y","T","i","p","s">>,
        <<"#","O","n","l","i","n","e","S","a","f","e","t","y">> >>,
     << <<"#","P","h","i","s","h","i","n","g">>,
        <<"#","R","a","n","s","o","m","w","a","r","e">>,
        <<"#","M","a","l","w","a","r","e">> >> >>

(***************************************************************************)
(* Python str operations used by the program.                              *)
(***************************************************************************)
IsDigit(c) == c \in {"0", "1", "2", "3", "4", "5", "6", "7", "8", "9"}

Whitespace == {" ", "\n", "\t", "\r"}

\* first position whose character is not in chars (Len(s)+1 if there is none)
SkipLeft(s, chars) ==
  CHOOSE i \in 1..(Len(s) + 1) :
    /\ i = Len(s) + 1 \/ s[i] \notin chars
    /\ \A j \in 1..(i - 1) : s[j] \in chars

\* last position whose character is not in chars (0 if there is none)
SkipRight(s, chars) ==
  CHOOSE i \in 0..Len(s) :
    /\ i = 0 \/ s[i] \notin chars
    /\ \A j \in (i + 1)..Len(s) : s[j] \in chars

\* str.strip()
Strip(s) ==
  LET a == SkipLeft(s, Whitespace)
      b == SkipRight(s, Whitespace)
  IN IF a > b THEN <<>> ELSE SubSeq(s, a, b)

\* str.lstrip(chars)
LStrip(s, chars) == SubSeq(s, SkipLeft(s, chars), Len(s))

\* str.rfind(c) as a 1-based position, 0 when c does not occur
RFind(s, c) ==
  IF \A i \in 1..Len(s) : s[i] # c THEN 0
  ELSE CHOOSE i \in 1..Len(s) : s[i] = c /\ \A j \in (i + 1)..Len(s) : s[j] # c

\* sub in s
Contains(sub, s) ==
  \/ sub = <<>>
  \/ \E i \in 1..(Len(s) - Len(sub) + 1) :
        /\ s[i] = sub[1]
        /\ SubSeq(s, i, i + Len(sub) - 1) = sub

RECURSIVE JoinWith(_, _)
\* sep.join(parts)
JoinWith(sep, parts) ==
  IF parts = <<>> THEN <<>>
  ELSE IF Len(parts) = 1 THEN parts[1]
  ELSE parts[1] \o sep \o JoinWith(sep, Tail(parts))

RECURSIVE CutLines(_, _, _)
\* the pieces of s between the line breaks at the ascending positions nl
CutLines(s, nl, from) ==
  IF nl = <<>> THEN
    IF from > Len(s) THEN <<>> ELSE <<SubSeq(s, from, Len(s))>>
  ELSE <<SubSeq(s, from, nl[1] - 1)>> \o CutLines(s, Tail(nl), nl[1] + 1)

RECURSIVE Ascending(_)
Ascending(S) ==
  IF S = {} THEN <<>>
  ELSE LET m == CHOOSE x \in S : \A y \in S : x <= y
       IN <<m>> \o Ascending(S \ {m})

\* str.splitlines(), for texts whose only line break is "\n"
SplitLines(s) ==
  CutLines(s, Ascending({i \in 1..Len(s) : s[i] = "\n"}), 1)

\* s * n
Repeat(s, n) == [i \in 1..(n * Len(s)) |-> s[((i - 1) % Len(s)) + 1]]

(***************************************************************************)
(* clamp_tweet, pick_hashtags, parse_thread_list (lines 114-167).          *)
(***************************************************************************)
\* clamp_tweet cutting at MAX_TWEET_LEN, leaving no room for the ellipsis
clamp_tweet_no_room(text) ==
  IF Len(text) <= MAX_TWEET_LEN THEN Strip(text)
  ELSE LET cut0 == SubSeq(text, 1, MAX_TWEET_LEN)
           sp   == RFind(cut0, " ")
           cut  == IF sp > 0 THEN SubSeq(cut0, 1, sp - 1) ELSE cut0
       IN Strip(cut \o <<ELLIPSIS>>)

clamp_tweet(text) ==
  IF Len(text) <= MAX_TWEET_LEN THEN Strip(text)
  ELSE LET cut0 == SubSeq(text, 1, MAX_TWEET_LEN - 1)
           sp   == RFind(cut0, " ")
           cut  == IF sp > 0 THEN SubSeq(cut0, 1, sp - 1) ELSE cut0
       IN Strip(cut \o <<ELLIPSIS>>)

\* the values random.sample(bucket, k) can return, k in {2, 3}
Samples(bucket) ==
  {<<bucket[i], bucket[j]>> : <<i, j>> \in {p \in (1..3) \X (1..3) : p[1] # p[2]}}
    \cup
  {<<bucket[p[1]], bucket[p[2]], bucket[p[3]]>> :
      p \in {q \in (1..3) \X (1..3) \X (1..3) : Cardinality({q[1], q[2], q[3]}) = 3}}

\* the values pick_hashtags() can return
pick_hashtags ==
  UNION {{JoinWith(<<" ">>, smp) : smp \in Samples(HASHTAG_BUCKETS[b])} : b \in 1..3}

MarkerChars == {"1", "2", "3", "4", "5", ")", ".", " ", "-"}

\* lines 150-155: the stripped non-empty lines, each without its marker, clamped
ParsedLines(rawText) ==
  LET all   == SplitLines(Strip(rawText))
      lines == SelectSeq([i \in 1..Len(all) |-> Strip(all[i])], LAMBDA ln : ln # <<>>)
  IN [i \in 1..Len(lines) |->
        clamp_tweet(IF IsDigit(lines[i][1]) THEN LStrip(lines[i], MarkerChars)
                    ELSE lines[i])]

\* lines 156-158: at most five, padded to five
FiveOf(ts) ==
  [i \in 1..5 |-> IF i <= Len(ts) THEN ts[i] ELSE FILLER]

\* lines 160-166: the last segment after call-to-action and hashtags
AugmentLast(last0, tags) ==
  LET last1 == IF ~Contains(CTA, last0) THEN clamp_tweet(last0 \o <<" ">> \o CTA)
               ELSE last0
      last2 == IF Len(last1) + 1 + Len(tags) <= MAX_TWEET_LEN
               THEN last1 \o <<" ">> \o tags ELSE last1
  IN clamp_tweet(last2)

parse_thread_list(rawText, tags) ==
  LET five == FiveOf(ParsedLines(rawText))
  IN [five EXCEPT ![5] = AugmentLast(five[5], tags)]

(***************************************************************************)
(* Python values. The program handles values of whatever type json.load    *)
(* returns, so a value carries its type: None, str, int, list or dict (a   *)
(* dict is the sequence of its <<key, value>> pairs, keys being texts).    *)
(***************************************************************************)
None == <<"None">>
Str(s) == <<"str", s>>
Num(n) == <<"int", n>>
List(xs) == <<"list", xs>>
Dict(kvs) == <<"dict", kvs>>

TypeOf(v) == v[1]

\* bool(v)
Truthy(v) ==
  CASE TypeOf(v) = "None" -> FALSE
    [] TypeOf(v) = "int" -> v[2] # 0
    [] OTHER -> v[2] # <<>>

\* k in d, d[k] for a dict d
HasKey(d, k) == \E i \in 1..Len(d[2]) : d[2][i][1] = k
Get(d, k) == d[2][CHOOSE i \in 1..Len(d[2]) : d[2][i][1] = k][2]

\* `for x in v` / tuple(v): defined for list, str and dict
CanIter(v) == TypeOf(v) \in {"list", "str", "dict"}
Iter(v) ==
  CASE TypeOf(v) = "list" -> v[2]
    [] TypeOf(v) = "str" -> [i \in 1..Len(v[2]) |-> Str(<<v[2][i]>>)]
    [] TypeOf(v) = "dict" -> [i \in 1..Len(v[2]) |-> Str(v[2][i][1])]

\* hash(v) does not raise
Hashable(v) == TypeOf(v) \in {"None", "str", "int"}

Range(seq) == {seq[i] : i \in 1..Len(seq)}

DigitChar(n) == <<"0", "1", "2", "3", "4", "5", "6", "7", "8", "9">>[n + 1]

RECURSIVE Repr(_)
RECURSIVE ReprItems(_)
RECURSIVE ReprMembers(_)
\* repr(v), which is str(v) except for a str (ints of one digit, texts without quotes)
Repr(v) ==
  CASE TypeOf(v) = "None" -> <<"N","o","n","e">>
    [] TypeOf(v) = "str" -> <<"'">> \o v[2] \o <<"'">>
    [] TypeOf(v) = "int" -> <<DigitChar(v[2])>>
    [] TypeOf(v) = "list" -> <<"[">> \o ReprItems(v[2]) \o <<"]">>
    [] TypeOf(v) = "dict" -> <<"{">> \o ReprMembers(v[2]) \o <<"}">>
ReprItems(xs) ==
  IF xs = <<>> THEN <<>>
  ELSE IF Len(xs) = 1 THEN Repr(xs[1])
  ELSE Repr(xs[1]) \o <<",", " ">> \o ReprItems(Tail(xs))
ReprMembers(kvs) ==
  IF kvs = <<>> THEN <<>>
  ELSE LET m == <<"'">> \o kvs[1][1] \o <<"'", ":", " ">> \o Repr(kvs[1][2])
       IN IF Len(kvs) = 1 THEN m ELSE m \o <<",", " ">> \o ReprMembers(Tail(kvs))

\* str(v)
PyStr(v) == IF TypeOf(v) = "str" THEN v[2] ELSE Repr(v)

(***************************************************************************)
(* JSON text as a sequence of tokens: punctuation <<"[">>, <<"]">>,        *)
(* <<"{">>, <<"}">>, <<",">>, <<":">>, and the literals <<"s", text>>,     *)
(* <<"n", int>>, <<"null">>. Whitespace and indentation are not tokens.    *)
(***************************************************************************)
RECURSIVE json_dump(_)
RECURSIVE DumpItems(_)
RECURSIVE DumpMembers(_)
json_dump(v) ==
  CASE TypeOf(v) = "None" -> << <<"null">> >>
    [] TypeOf(v) = "str" -> << <<"s", v[2]>> >>
    [] TypeOf(v) = "int" -> << <<"n", v[2]>> >>
    [] TypeOf(v) = "list" -> << <<"[">> >> \o DumpItems(v[2]) \o << <<"]">> >>
    [] TypeOf(v) = "dict" -> << <<"{">> >> \o DumpMembers(v[2]) \o << <<"}">> >>
DumpItems(xs) ==
  IF xs = <<>> THEN <<>>
  ELSE IF Len(xs) = 1 THEN json_dump(xs[1])
  ELSE json_dump(xs[1]) \o << <<",">> >> \o DumpItems(Tail(xs))
DumpMembers(kvs) ==
  IF kvs = <<>> THEN <<>>
  ELSE LET m == << <<"s", kvs[1][1]>>, <<":">> >> \o json_dump(kvs[1][2])
       IN IF Len(kvs) = 1 THEN m ELSE m \o << <<",">> >> \o DumpMembers(Tail(kvs))

ParseFail == [ok |-> FALSE, val |-> None, next |-> 0]

RECURSIVE ParseValue(_, _)
RECURSIVE ParseItems(_, _, _)
RECURSIVE ParseMembers(_, _, _)
\* the JSON value that starts at token i: [ok, val, next]
ParseValue(t, i) ==
  IF i > Len(t) THEN ParseFail
  ELSE CASE t[i][1] = "null" -> [ok |-> TRUE, val |-> None, next |-> i + 1]
         [] t[i][1] = "s" -> [ok |-> TRUE, val |-> Str(t[i][2]), next |-> i + 1]
         [] t[i][1] = "n" -> [ok |-> TRUE, val |-> Num(t[i][2]), next |-> i + 1]
         [] t[i][1] = "[" ->
              IF i + 1 <= Len(t) /\ t[i + 1][1] = "]"
              THEN [ok |-> TRUE, val |-> List(<<>>), next |-> i + 2]
              ELSE ParseItems(t, i + 1, <<>>)
         [] t[i][1] = "{" ->
              IF i + 1 <= Len(t) /\ t[i + 1][1] = "}"
              THEN [ok |-> TRUE, val |-> Dict(<<>>), next |-> i + 2]
              ELSE ParseMembers(t, i + 1, <<>>)
         [] OTHER -> ParseFail
ParseItems(t, i, acc) ==
  LET r == ParseValue(t, i)
  IN IF ~r.ok \/ r.next > Len(t) THEN ParseFail
     ELSE IF t[r.next][1] = "," THEN ParseItems(t, r.next + 1, Append(acc, r.val))
     ELSE IF t[r.next][1] = "]"
          THEN [ok |-> TRUE, val |-> List(Append(acc, r.val)), next |-> r.next + 1]
     ELSE ParseFail
ParseMembers(t, i, acc) ==
  IF i + 2 > Len(t) \/ t[i][1] # "s" \/ t[i + 1][1] # ":" THEN ParseFail
  ELSE LET r == ParseValue(t, i + 2)
       IN IF ~r.ok \/ r.next > Len(t) THEN ParseFail
          ELSE IF t[r.next][1] = ","
               THEN ParseMembers(t, r.next + 1, Append(acc, <<t[i][2], r.val>>))
          ELSE IF t[r.next][1] = "}"
               THEN [ok |-> TRUE, val |-> Dict(Append(acc, <<t[i][2], r.val>>)),
                     next |-> r.next + 1]
          ELSE ParseFail

\* json.load: raises unless the whole text is one JSON value
json_load(text) ==
  LET r == ParseValue(text, 1)
  IN IF r.ok /\ r.next = Len(text) + 1 THEN [raised |-> FALSE, value |-> r.val]
     ELSE [raised |-> TRUE, value |-> None]

(***************************************************************************)
(* load_fallback_threads, load_log, save_log, pick_fallback (lines 62-109).*)
(***************************************************************************)
K_time == <<"t","i","m","e">>
K_source == <<"s","o","u","r","c","e">>
K_tweets == <<"t","w","e","e","t","s">>
K_first_tweet_id == <<"f","i","r","s","t","_","t","w","e","e","t","_","i","d">>
K_generated_text == <<"g","e","n","e","r","a","t","e","d","_","t","e","x","t">>
AI == <<"a","i">>
FALLBACK == <<"f","a","l","l","b","a","c","k">>

DEFAULT_THREAD ==
  List(<< Str(<<"C","y","b","e","r","s","e","c","u","r","i","t","y"," ","a","w","a","r","e","n",
                "e","s","s"," ","m","a","t","t","e","r","s",".">>),
          Str(<<"A","l","w","a","y","s"," ","d","o","u","b","l","e","-","c","h","e","c","k"," ",
                "l","i","n","k","s"," ","b","e","f","o","r","e"," ","c","l","i","c","k","i","n",
                "g",".">>),
          Str(<<"E","n","a","b","l","e"," ","M","F","A"," ","t","o"," ","p","r","o","t","e","c",
                "t"," ","y","o","u","r"," ","a","c","c","o","u","n","t","s",".">>),
          Str(<<"K","e","e","p"," ","y","o","u","r"," ","s","o","f","t","w","a","r","e"," ","u",
                "p","d","a","t","e","d",".">>),
          Str(<<"W","a","s"," ","t","h","i","s"," ","u","s","e","f","u","l","?"," ","L","i","k",
                "e",","," ","S","h","a","r","e"," ","&"," ","C","o","m","m","e","n","t"," ","t",
                "o"," ","h","e","l","p"," ","o","t","h","e","r","s"," ","s","t","a","y"," ","s",
                "a","f","e","."," ","#","C","y","b","e","r","A","w","a","r","e","n","e","s","s">>) >>)

load_fallback_threads(file) ==
  LET r == json_load(file.text)
  IN IF /\ file.exists
        /\ ~r.raised
        /\ TypeOf(r.value) = "list"
        /\ \A i \in 1..Len(r.value[2]) : TypeOf(r.value[2][i]) = "list"
     THEN r.value
     ELSE List(<<DEFAULT_THREAD>>)

load_log(file) ==
  IF ~file.exists THEN List(<<>>)
  ELSE LET r == json_load(file.text)
       IN IF r.raised THEN List(<<>>) ELSE r.value

\* save_log writing the new entry alone, without the history loaded before
save_log_overwrite(entry, file) ==
  [raised |-> FALSE, file |-> [exists |-> TRUE, text |-> json_dump(List(<<entry>>))]]

\* [raised, file]: the exception flag and the history file afterwards
save_log(entry, file) ==
  LET history == load_log(file)
  IN IF TypeOf(history) # "list" THEN [raised |-> TRUE, file |-> file]
     ELSE [raised |-> FALSE,
           file |-> [exists |-> TRUE,
                     text |-> json_dump(List(Append(history[2], entry)))]]

\* h[k] does not raise
CanIndex(h, k) == TypeOf(h) = "dict" /\ HasKey(h, k)

\* line 103 raises
UsedRaises(history) ==
  \/ ~CanIter(history)
  \/ \E i \in 1..Len(Iter(history)) :
       LET h == Iter(history)[i]
       IN \/ ~CanIndex(h, K_source)
          \/ /\ Get(h, K_source) = Str(FALLBACK)
             /\ \/ ~CanIndex(h, K_tweets)
                \/ ~CanIter(Get(h, K_tweets))
                \/ \E j \in 1..Len(Iter(Get(h, K_tweets))) :
                      ~Hashable(Iter(Get(h, K_tweets))[j])

\* line 103: the tuples of the threads history records with source "fallback"
Used(history) ==
  {Iter(Get(Iter(history)[i], K_tweets)) :
     i \in {j \in 1..Len(Iter(history)) : Get(Iter(history)[j], K_source) = Str(FALLBACK)}}

\* pick_fallback choosing among the whole pool, used or not
pick_fallback_any(threads, file) ==
  IF UsedRaises(load_log(file)) \/ threads[2] = <<>>
  THEN [raised |-> TRUE, choices |-> {}]
  ELSE [raised |-> FALSE, choices |-> Range(threads[2])]

\* [raised, choices]: the exception flag and the threads random.choice can return
pick_fallback(threads, file) ==
  LET history == load_log(file)
      pool == threads[2]
  IN IF \/ UsedRaises(history)
        \/ \E i \in 1..Len(pool) : \E j \in 1..Len(pool[i][2]) : ~Hashable(pool[i][2][j])
     THEN [raised |-> TRUE, choices |-> {}]
     ELSE LET unused == SelectSeq(pool, LAMBDA th : th[2] \notin Used(history))
          IN IF unused # <<>> THEN [raised |-> FALSE, choices |-> Range(unused)]
             ELSE IF pool = <<>> THEN [raised |-> TRUE, choices |-> {}]
             ELSE [raised |-> FALSE, choices |-> Range(pool)]

(***************************************************************************)
(* call_hf_inference (lines 137-147). A response is [sent, status, body]:  *)
(* sent is FALSE when requests.post itself raised; body is the JSON text.  *)
(***************************************************************************)
Raised == [raised |-> TRUE, value |-> None]
Returned(v) == [raised |-> FALSE, value |-> v]

\* `K_generated_text in d0` followed by d0[K_generated_text]
FirstGenerated(data, d0) ==
  CASE TypeOf(d0) = "dict" ->
         IF HasKey(d0, K_generated_text) THEN Returned(Get(d0, K_generated_text))
         ELSE Returned(Str(PyStr(data)))
    [] TypeOf(d0) = "str" ->
         IF Contains(K_generated_text, d0[2]) THEN Raised
         ELSE Returned(Str(PyStr(data)))
    [] TypeOf(d0) = "list" ->
         IF Str(K_generated_text) \in Range(d0[2]) THEN Raised
         ELSE Returned(Str(PyStr(data)))
    [] OTHER -> Raised

call_hf_inference(resp) ==
  IF ~resp.sent \/ resp.status # 200 THEN Raised
  ELSE LET body == json_load(resp.body)
       IN IF body.raised THEN Raised
          ELSE IF TypeOf(body.value) = "list"
               THEN IF body.value[2] = <<>> THEN Raised
                    ELSE FirstGenerated(body.value, body.value[2][1])
          ELSE Returned(Str(PyStr(body.value)))

(***************************************************************************)
(* The environment of one execution: RUN_MODE, the generative backend's    *)
(* responses, the hashtags drawn, the two files.                           *)
(***************************************************************************)
EVENING == <<"0"," ","2","0"," ","*"," ","*"," ","*">>

RunModeEnv ==
  { <<>>,
    <<" ">> \o EVENING \o <<"\n">>,
    <<"0"," ","8"," ","*"," ","*"," ","*">> }

Scenario2Raw ==
  <<"1","."," ","T","i","p"," ","o","n","e","\n","2","."," ","T","i","p"," ","t","w",
    "o","\n","3","."," ","T","i","p"," ","t","h","r","e","e","\n","4","."," ","T","i",
    "p"," ","f","o","u","r","\n","5","."," ","T","i","p"," ","f","i","v","e">>

GeneratedBody(v) == json_dump(List(<< Dict(<< <<K_generated_text, v>> >>) >>))

HfResponses ==
  { [sent |-> FALSE, status |-> 0, body |-> <<>>],
    [sent |-> TRUE, status |-> 500, body |-> <<>>],
    [sent |-> TRUE, status |-> 200, body |-> << <<"[">> >>],
    [sent |-> TRUE, status |-> 200, body |-> json_dump(List(<<>>))],
    [sent |-> TRUE, status |-> 200, body |-> GeneratedBody(None)],
    [sent |-> TRUE, status |-> 200, body |-> GeneratedBody(Str(Scenario2Raw))],
    [sent |-> TRUE, status |-> 200,
     body |-> json_dump(Dict(<< <<<<"e","r","r","o","r">>, Str(<<"x">>)>> >>))] }

\* the hashtag draws of an execution: the first two tags of one of the first
\* MaxBuckets buckets
RunHashtags ==
  { JoinWith(<<" ">>, <<HASHTAG_BUCKETS[b][1], HASHTAG_BUCKETS[b][2]>>) : b \in 1..MaxBuckets }

TextList(ts) == List([i \in 1..Len(ts) |-> Str(ts[i])])

PoolThreadA ==
  TextList(<< <<"A","1">>, <<"A","2">>, <<"A","3">>, <<"A","4">>,
              <<"A","5"," ">> \o CTA >>)

\* a stored thread that the generative path can compose as well
PoolThreadB ==
  TextList(parse_thread_list(Scenario2Raw,
                             JoinWith(<<" ">>, <<HASHTAG_BUCKETS[1][1], HASHTAG_BUCKETS[1][2]>>)))

Missing == [exists |-> FALSE, text |-> <<>>]
FileOf(text) == [exists |-> TRUE, text |-> text]

FallbackFiles ==
  { Missing,
    FileOf(<< <<"[">>, <<"[">> >>),
    FileOf(json_dump(List(<< Str(<<"A","1">>) >>))),
    FileOf(json_dump(List(<<>>))),
    FileOf(json_dump(List(<< PoolThreadA, PoolThreadB >>))) }

\* datetime.utcnow().isoformat() + "Z": the clock ticks once per execution
NowIso(r) == <<"T", DigitChar(r), "Z">>

\* str(res.data["id"]): the backend gives the k-th post of execution r a fresh id
NewId(r, k) == <<DigitChar(r), DigitChar(k)>>

\* a record of an earlier execution that posted PoolThreadA as a fallback
StoredRecord ==
  Dict(<< <<K_time, Str(NowIso(0))>>,
          <<K_source, Str(FALLBACK)>>,
          <<K_tweets, PoolThreadA>>,
          <<K_first_tweet_id, Str(NewId(0, 1))>> >>)

LogFiles ==
  { Missing,
    FileOf(<< <<"{">>, <<"]">> >>),
    FileOf(json_dump(Dict(<< <<<<"a">>, Num(1)>> >>))),
    FileOf(json_dump(List(<< Num(1) >>))),
    FileOf(json_dump(List(<< StoredRecord >>))) }

(***************************************************************************)
(* main and post_thread (lines 169-228).                                   *)
(***************************************************************************)
NoCall == [seg |-> 0, n |-> 0, ok |-> TRUE]

Init ==
  /\ fallbackFile \in FallbackFiles
  /\ logFile \in LogFiles
  /\ logInit = logFile /\ logAtStart = logFile
  /\ picked = <<>> /\ saved = <<>>
  /\ run = 0 /\ pc = "idle" /\ run_mode = <<>> /\ fallback_threads = None
  /\ tweets = None /\ source = <<>> /\ first_id = None /\ parent_id = None
  /\ idx = 0 /\ attempt = 0 /\ lastSleep = 0 /\ err = "none"
  /\ hfCalls = 0 /\ hfOutcome = "none" /\ created = <<>> /\ lastCall = NoCall
  /\ raw = <<>> /\ ht = <<>> /\ out = <<>> /\ cpc = "off"

\* lines 195-199, with the bookkeeping of a new execution
StartRun ==
  /\ pc \in {"idle", "done", "crashed"}
  /\ run < MaxRuns
  /\ run' = run + 1
  /\ \E env \in RunModeEnv : run_mode' = Strip(env)
  /\ fallback_threads' = load_fallback_threads(fallbackFile)
  /\ tweets' = None /\ source' = <<>>
  /\ first_id' = None /\ parent_id' = None /\ idx' = 0 /\ attempt' = 0
  /\ lastSleep' = 0 /\ err' = "none" /\ hfCalls' = 0 /\ hfOutcome' = "none"
  /\ created' = <<>> /\ lastCall' = NoCall
  /\ logAtStart' = logFile
  /\ pc' = "select"
  /\ UNCHANGED <<fallbackFile, logFile, picked, saved, logInit, composeVars>>

\* lines 170-171: post_thread is entered with the thread chosen
EnterPost(thread, tag) ==
  /\ tweets' = thread /\ source' = tag
  /\ first_id' = None /\ parent_id' = None /\ idx' = 1 /\ attempt' = 0
  /\ pc' = "post" /\ err' = "none"

\* lines 202-203 and 215-216: tweets = pick_fallback(fallback_threads)
UseFallback ==
  LET r == pick_fallback(fallback_threads, logFile)
  IN IF r.raised
     THEN /\ pc' = "crashed" /\ err' = "pick_fallback"
          /\ UNCHANGED <<tweets, source, first_id, parent_id, idx, attempt, picked>>
     ELSE \E chosen \in r.choices :
            /\ EnterPost(chosen, FALLBACK)
            /\ picked' = Append(picked, chosen)

\* the two branches of line 201 swapped
IsEveningInverted(mode) == mode # EVENING

\* line 201
IsEvening(mode) == mode = EVENING

\* lines 201-216
SelectSource ==
  /\ pc = "select"
  /\ IF IsEvening(run_mode)
     THEN /\ UseFallback
          /\ UNCHANGED <<hfCalls, hfOutcome>>
     ELSE \E resp \in HfResponses :
            LET c == call_hf_inference(resp)
            IN /\ hfCalls' = hfCalls + 1
               /\ IF ~c.raised /\ TypeOf(c.value) = "str"
                  THEN /\ hfOutcome' = "ok"
                       /\ \E tags \in RunHashtags :
                            EnterPost(TextList(parse_thread_list(c.value[2], tags)), AI)
                       /\ UNCHANGED picked
                  ELSE /\ hfOutcome' = "fail"
                       /\ UseFallback
  /\ UNCHANGED <<run, run_mode, fallback_threads, lastSleep, created, lastCall,
                 fallbackFile, logFile, logAtStart, saved, logInit, composeVars>>

\* line 173: range(3)
Attempts == 3

\* the re-raise tested against an attempt index the loop never reaches
RetriesExhaustedLate(a) == a = 3

\* line 186
RetriesExhausted(a) == a = 2

\* lines 175-178: the create_tweet call made for `text`
CreateCall(text) ==
  [text |-> text, in_reply_to |-> IF Truthy(parent_id) THEN parent_id ELSE None]

\* replies always attached to the first post: a star, not a chain
AfterCreateStar(tid) ==
  [first_id |-> IF first_id = None THEN tid ELSE first_id,
   parent_id |-> IF first_id = None THEN tid ELSE first_id]

\* lines 179-182
AfterCreate(tid) ==
  [first_id |-> IF first_id = None THEN tid ELSE first_id, parent_id |-> tid]

\* lines 172-188: one create_tweet call and what follows it up to the next call
PostAttempt ==
  /\ pc = "post"
  /\ idx <= Len(tweets[2])
  /\ \E ok \in BOOLEAN :
       /\ lastCall' = [seg |-> idx, n |-> IF lastCall.seg = idx THEN lastCall.n + 1 ELSE 1,
                       ok |-> ok]
       /\ IF ok
          THEN LET tid == Str(NewId(run, Len(created) + 1))
                   call == CreateCall(tweets[2][idx])
               IN /\ created' = Append(created, [text |-> call.text,
                                                 in_reply_to |-> call.in_reply_to,
                                                 id |-> tid])
                  /\ first_id' = AfterCreate(tid).first_id
                  /\ parent_id' = AfterCreate(tid).parent_id
                  /\ lastSleep' = 2
                  /\ idx' = idx + 1 /\ attempt' = 0
                  /\ UNCHANGED <<pc, err>>
          ELSE /\ lastSleep' = 2 + attempt * 2
               /\ UNCHANGED <<created, first_id, parent_id>>
               /\ IF RetriesExhausted(attempt)
                  THEN /\ pc' = "crashed" /\ err' = "post_thread"
                       /\ UNCHANGED <<idx, attempt>>
                  ELSE IF attempt + 1 < Attempts
                  THEN /\ attempt' = attempt + 1
                       /\ UNCHANGED <<pc, err, idx>>
                  ELSE /\ idx' = idx + 1 /\ attempt' = 0
                       /\ UNCHANGED <<pc, err>>
  /\ UNCHANGED <<run, run_mode, fallback_threads, tweets, source, hfCalls, hfOutcome,
                 storeVars, composeVars>>

\* lines 222-227
LogEntry ==
  Dict(<< <<K_time, Str(NowIso(run))>>,
          <<K_source, Str(source)>>,
          <<K_tweets, tweets>>,
          <<K_first_tweet_id, first_id>> >>)

\* lines 189 and 218-228: post_thread returns first_id, main saves the log entry
LogRun ==
  /\ pc = "post"
  /\ idx > Len(tweets[2])
  /\ LET r == save_log(LogEntry, logFile)
     IN IF r.raised
        THEN /\ pc' = "crashed" /\ err' = "save_log"
             /\ UNCHANGED <<logFile, saved>>
        ELSE /\ pc' = "done" /\ err' = "none"
             /\ logFile' = r.file
             /\ saved' = Append(saved, LogEntry)
  /\ UNCHANGED <<run, run_mode, fallback_threads, tweets, source, first_id, parent_id,
                 idx, attempt, lastSleep, hfCalls, hfOutcome, created, lastCall,
                 fallbackFile, picked, logAtStart, logInit, composeVars>>

Next == StartRun \/ SelectSource \/ PostAttempt \/ LogRun

Spec == Init /\ [][Next]_vars

(***************************************************************************)
(* Properties of main, post_thread and the history store, under Spec.      *)
(***************************************************************************)
\* a create_tweet call is made in this step of the current execution
Called == lastCall' # lastCall /\ run' = run

C1Step ==
  /\ Called =>
       /\ lastCall'.seg = idx
       /\ lastCall'.n <= 3
       /\ lastCall'.n > 1 => lastCall.seg = lastCall'.seg /\ ~lastCall.ok
       /\ (~lastCall'.ok /\ lastCall'.n < 3) => pc' = "post" /\ idx' = idx
       /\ (~lastCall'.ok /\ lastCall'.n = 3) => pc' = "crashed" /\ err' = "post_thread"
  /\ (pc = "crashed" /\ err = "post_thread") =>
       /\ ~Called
       /\ run' = run => created' = created /\ pc' = pc

\* C1: every segment gets at most 3 create attempts, a further attempt for a
\* segment is made only after the previous attempt for that segment failed, and
\* when the 3rd attempt fails the failure propagates and no later segment of the
\* thread is attempted.
C1_BoundedRetryThenAbort == [][C1Step]_vars

\* segment 2 of 5 failed three times after segment 1 was posted
C1_Witness ==
  /\ pc = "crashed" /\ err = "post_thread"
  /\ lastCall = [seg |-> 2, n |-> 3, ok |-> FALSE]
  /\ Len(created) = 1 /\ Len(tweets[2]) = 5

\* post_thread returned in the current execution
PostReturned == pc = "done" \/ (pc = "crashed" /\ err = "save_log")

\* C2: in every execution of main a history record is appended if and only if
\* post_thread returned after posting every segment, after the last segment was
\* posted; otherwise the history file is left unchanged.
C2_RecordIffPosted ==
  /\ pc \in {"select", "post"} => logFile = logAtStart
  /\ pc \in {"done", "crashed"} =>
       /\ logFile # logAtStart <=> PostReturned
       /\ logFile # logAtStart =>
            /\ Len(created) = Len(tweets[2])
            /\ load_log(logFile) = List(Append(load_log(logAtStart)[2], LogEntry))

IsRecordList(v) ==
  /\ TypeOf(v) = "list"
  /\ \A i \in 1..Len(v[2]) :
       /\ TypeOf(v[2][i]) = "dict"
       /\ HasKey(v[2][i], K_source) /\ HasKey(v[2][i], K_tweets)
       /\ TypeOf(Get(v[2][i], K_tweets)) = "list"
       /\ \A j \in 1..Len(Get(v[2][i], K_tweets)[2]) :
            TypeOf(Get(v[2][i], K_tweets)[2][j]) = "str"

\* the threads present in the history, whatever their source
InHistory(file) ==
  IF IsRecordList(load_log(file))
  THEN {Get(load_log(file)[2][i], K_tweets)[2] : i \in 1..Len(load_log(file)[2])}
  ELSE {}

\* pick_fallback returned `tweets` in the current execution
PickReturned == pc = "post" /\ source = FALLBACK

C5_LinearReplyChain ==
  (pc \in {"post", "done", "crashed"} /\ tweets # None) =>
    /\ Len(created) <= Len(tweets[2])
    /\ pc = "post" => Len(created) = idx - 1
    /\ \A k \in 1..Len(created) :
         /\ created[k].text = tweets[2][k]
         /\ created[k].in_reply_to = IF k = 1 THEN None ELSE created[k - 1].id
    /\ first_id = IF created = <<>> THEN None ELSE created[1].id
    /\ pc = "done" =>
         /\ Len(created) = Len(tweets[2])
         /\ Get(saved[Len(saved)], K_first_tweet_id) = first_id

\* five segments posted, the last one on a retry
C5_Witness ==
  /\ pc = "done" /\ Len(created) = 5
  /\ lastCall.seg = 5 /\ lastCall.n > 1 /\ lastCall.ok

\* C8: whatever the fallback file and the history file hold, the pool loaded is
\* the file's threads or the built-in default thread, and neither the loads
\* nor pick_fallback raise, so the execution reaches posting.
C8_StorageErrorsNeverSurface ==
  pc \in {"select", "post", "done", "crashed"} =>
    /\ \/ fallback_threads = List(<<DEFAULT_THREAD>>)
       \/ fallbackFile.exists /\ fallback_threads = json_load(fallbackFile.text).value
    /\ err # "pick_fallback"

C9Step ==
  /\ saved' # saved =>
       /\ Len(saved') = Len(saved) + 1
       /\ TypeOf(load_log(logFile)) = "list"
       /\ load_log(logFile') = List(Append(load_log(logFile)[2], saved'[Len(saved')]))
  /\ ~logInit.exists => load_log(logFile') = List(saved')

\* C9: starting from an absent history file, after N save_log calls load_log
\* returns exactly the N records in append order with their fields unchanged;
\* every save_log keeps the records load_log returned before it, in place and
\* in order, and adds the new record at the end.
C9_AppendOnlyRoundTrip == [][C9Step]_vars

\* two records appended to a history file that did not exist
C9_Witness ==
  /\ ~logInit.exists /\ Len(saved) = 2
  /\ load_log(logFile) = List(saved)
  /\ Get(saved[1], K_time) # Get(saved[2], K_time)

(***************************************************************************)
(* SpecCompose: parse_thread_list applied to generated texts.              *)
(*                                                                         *)
(* A generated text has n lines. The line that ends up as the last         *)
(* segment when n >= 5 (line min(n, 5)) is drawn from KeyLines, every      *)
(* other line from HeadLines.                                              *)
(***************************************************************************)
Word == <<"s","a","f","e"," ">>

HeadLines ==
  { <<"2",")"," ","t","i","p">>,
    <<"1",".">>,
    <<" ","x","\t">>,
    Repeat(<<"a">>, MAX_TWEET_LEN + 20) }

KeyLines ==
  { Repeat(<<"a">>, n) : n \in {MAX_TWEET_LEN - Len(CTA) - 1, MAX_TWEET_LEN - Len(CTA),
                                250, MAX_TWEET_LEN - 1, MAX_TWEET_LEN, MAX_TWEET_LEN + 1} }
    \cup
  { SubSeq(Repeat(Word, 60), 1, n) : n \in {190, 214, 249, MAX_TWEET_LEN + 1} }
    \cup
  { <<"3",")"," ","-">>,
    <<"5","."," ">> \o CTA,
    CTA \o <<" ">> \o Repeat(<<"z">>, 200),
    Repeat(<<"b">>, 230) \o <<" ">> \o CTA }

RawInputs ==
  { <<>>, <<" ","\n","\n">> }
    \cup
  { JoinWith(<<"\n">>, [i \in 1..n |-> IF i = (IF n < 5 THEN n ELSE 5) THEN k ELSE h])
      : <<n, h, k>> \in (1..MaxLines) \X HeadLines \X KeyLines }

mainOff ==
  /\ run = 0 /\ pc = "off" /\ run_mode = <<>> /\ fallback_threads = None
  /\ tweets = None /\ source = <<>> /\ first_id = None
  /\ parent_id = None /\ idx = 0 /\ attempt = 0 /\ lastSleep = 0 /\ err = "none"
  /\ hfCalls = 0 /\ hfOutcome = "none" /\ created = <<>>
  /\ lastCall = [seg |-> 0, n |-> 0, ok |-> TRUE]

storeOff ==
  /\ fallbackFile = [exists |-> FALSE, text |-> <<>>]
  /\ logFile = [exists |-> FALSE, text |-> <<>>]
  /\ logInit = logFile /\ logAtStart = logFile
  /\ picked = <<>> /\ saved = <<>>

InitCompose ==
  /\ mainOff /\ storeOff
  /\ raw \in RawInputs
  /\ ht = <<>> /\ out = <<>> /\ cpc = "input"

\* lines 150-158
ParseLines ==
  /\ cpc = "input"
  /\ out' = FiveOf(ParsedLines(raw))
  /\ cpc' = "lines"
  /\ UNCHANGED <<raw, ht, mainVars, storeVars>>

\* lines 160-167
Augment ==
  /\ cpc = "lines"
  /\ \E tags \in pick_hashtags :
       /\ ht' = tags
       /\ out' = [out EXCEPT ![5] = AugmentLast(out[5], tags)]
  /\ cpc' = "parsed"
  /\ UNCHANGED <<raw, mainVars, storeVars>>

NextCompose == ParseLines \/ Augment

SpecCompose == InitCompose /\ [][NextCompose]_vars

\* the non-empty stripped lines of the generated text
NonEmptyLines(rawText) ==
  LET all == SplitLines(Strip(rawText))
  IN SelectSeq([i \in 1..Len(all) |-> Strip(all[i])], LAMBDA ln : ln # <<>>)

\* C6: for every generated text parse_thread_list returns exactly 5 segments,
\* each of length at most 280, the augmented last one included.
C6_FiveBoundedSegments ==
  cpc \in {"lines", "parsed"} =>
    /\ Len(out) = 5
    /\ \A i \in 1..5 : Len(out[i]) <= MAX_TWEET_LEN

\* the text had more than 5 lines, a line over the limit was clamped to exactly
\* the limit, and the last segment was augmented
C6_Witness ==
  /\ cpc = "parsed"
  /\ Len(NonEmptyLines(raw)) > 5
  /\ \E i \in 1..Len(NonEmptyLines(raw)) : Len(NonEmptyLines(raw)[i]) > MAX_TWEET_LEN
  /\ Len(out[1]) = MAX_TWEET_LEN
  /\ Contains(CTA, out[5]) /\ Contains(ht, out[5])

\* C7: the final segment contains the complete call-to-action or has length
\* exactly 280.
C7_LastHasCtaOrIsFull ==
  cpc = "parsed" => Contains(CTA, out[5]) \/ Len(out[5]) = MAX_TWEET_LEN

\* C10: each of the 5 segments returned is a non-empty string.
C10_NoEmptySegment ==
  cpc = "parsed" => \A i \in 1..5 : out[i] # <<>>

====
